---- MODULE Spec2Model ----
(***************************************************************************)
(* Staging-table bulk upsert for SQLite (sqlalchemy_upsert_kit.sqlite):    *)
(* insert_or_replace, insert_or_ignore and the selective-column merge,     *)
(* run in auto-managed or user-managed transaction mode against a SQLite   *)
(* database reached through the pysqlite driver.                           *)
(*                                                                         *)
(* Database semantics (pysqlite, legacy transaction control): a            *)
(* transaction begins implicitly before the first DML statement of a       *)
(* connection; a DDL statement (CREATE/DROP TABLE) issued while no         *)
(* transaction is open takes effect immediately (autocommit), one issued   *)
(* inside an open transaction belongs to it.  An open write transaction    *)
(* holds the database write lock: a write from another connection fails    *)
(* with "database is locked", and uncommitted tables are invisible to it.  *)
(***************************************************************************)
EXTENDS Integers, Sequences, FiniteSets, TLC

\* ---------------------------------------------------------------- bounds
MaxKey == 3
MaxBatch == 2
MaxArmed == 1
MaxPk == 2
MaxConcBatch == 1
MaxTick == 3
TicksPerSecond == 2

\* ---------------------------------------------------------------- data
Keys == 1..MaxKey

NoRow == [desc |-> 0, ts |-> 0]
V1Row == [desc |-> 1, ts |-> 1]
V2Row == [desc |-> 2, ts |-> 2]

\* mutant: the primary-key column counts as a data column
ColumnsWithKey == {"id", "desc", "ts"}

NonKeyCols == {"desc", "ts"}

\* names a caller may pass as merge columns: the target's columns and one it lacks
MergeColumnNames == {"id", "desc", "ts", "missing"}

\* merge: the column list is empty, or names the primary key or a column the
\* target does not have
InvalidMergeColumns(cols) == cols = {} \/ ~(cols \subseteq NonKeyCols)

EmptyTable == [k \in Keys |-> NoRow]

Flags == {"raise_on_temp_table_create", "raise_on_temp_data_insert",
          "raise_on_target_delete", "raise_on_target_insert",
          "raise_on_temp_table_drop"}

Variants == {"replace", "ignore", "merge"}

\* the implementations: the functions of the sqlite/ package, the functions of
\* sqlite.py, and the UpsertHelper.run pipeline
Apis == {"package", "legacy", "helper"}

\* Python's None where a count is expected: a value that is no count
None == 0 - (MaxKey + MaxBatch + 100)

KeysOf(t) == {k \in Keys : t[k] # NoRow}

input_data(s) == [i \in 1..Len(s) |-> [id |-> s[i], desc |-> V2Row.desc, ts |-> V2Row.ts]]

existing_data(S) == [k \in Keys |-> IF k \in S THEN V1Row ELSE NoRow]

BatchKeys(vals) == {vals[i].id : i \in 1..Len(vals)}

UniqueKeys(vals) == \A i, j \in 1..Len(vals) : vals[i].id = vals[j].id => i = j

RowOf(r) == [desc |-> r.desc, ts |-> r.ts]

\* ---------------------------------------------------------------- state
VARIABLES
    variant,             \* which operation is called
    values,              \* the candidate batch (list of records)
    columns,             \* merge only: the columns to overwrite on conflict
    connArg,             \* conn is not None
    transArg,            \* trans is not None
    flags,               \* the armed _raise_on_* testing flags
    rowcount,            \* what the driver reports as rowcount of the delete and the insert
    api,                 \* which implementation is called (sqlite/ package, sqlite.py, UpsertHelper)
    pk_columns,          \* number of primary-key columns of the target table
    db,                  \* committed database: target rows and staging table
    work,                \* the operation connection's view inside its transaction
    inTx,                \* the operation connection has an open transaction
    connOpen,            \* the operation connection is open
    pc,                  \* position of the caller / the invocation
    temp_table_created,  \* nonlocal temp_table_created
    registered,          \* the staging descriptor is in the metadata registry
    updated_rows,        \* nonlocal updated_rows (replace, merge)
    ignored_rows,        \* nonlocal ignored_rows (ignore)
    inserted_rows,       \* nonlocal inserted_rows
    exc,                 \* the exception in flight ("" when none)
    result,              \* the returned pair (<<>> when none)
    origExc,             \* history: the exception raised by the failing phase
    wroteBefore,         \* history: key the caller wrote before the call (0: none)
    wroteAfter,          \* history: key the caller wrote after the call (0: none)
    viewAtCall,          \* history: target rows visible to the call when it began
    log,                 \* history: transaction and statement events, in order
    run,                 \* which call of the caller this is (1: first, 2: repeated)
    first,               \* history: target rows and result when the first call returned
    cdb,                 \* concurrent callers: committed target and staging tables by name
    cwork,               \* concurrent callers: the database as the write-lock holder sees it
    lock,                \* concurrent callers: the invocation holding the write lock (0: none)
    clock,               \* concurrent callers: the wall clock, in ticks
    inv,                 \* concurrent callers: arguments, locals and position of each invocation
    schema               \* clone_temp_table alone: its arguments, the registries, its result

vars == <<variant, values, columns, connArg, transArg, flags, rowcount, api, pk_columns,
          db, work, inTx,
          connOpen, pc, temp_table_created, registered, updated_rows,
          ignored_rows, inserted_rows, exc, result, origExc, wroteBefore, wroteAfter,
          viewAtCall, log, run, first, cdb, cwork, lock, clock, inv, schema>>

inputs == <<variant, values, columns, connArg, transArg, flags, rowcount, api, pk_columns>>
counts == <<updated_rows, ignored_rows, inserted_rows>>
locals == <<temp_table_created, registered, counts, exc, result, origExc>>
dbState == <<db, work, inTx, connOpen>>
callerHist == <<wroteBefore, wroteAfter, viewAtCall>>
\* two invocations running at the same time
conc == <<cdb, cwork, lock, clock, inv>>
\* what lies outside a single invocation: the caller's sequence of calls, and
\* the concurrent invocations
outer == <<run, first, conc, schema>>
single == <<inputs, dbState, pc, locals, callerHist, log, run, first, schema>>

\* insert_or_replace of sqlite.py: no conn, trans or testing-flag parameters
LegacyReplace == api = "legacy" /\ variant = "replace"

user_managed == connArg /\ transArg
auto_managed == ~connArg /\ ~transArg

View == IF inTx THEN work ELSE db

\* ---------------------------------------------------------------- SQL statements
\* temp_table.create(connection)
CreateTable(s) == [s EXCEPT !.tempExists = TRUE, !.temp = EmptyTable]

\* temp_table.drop(connection)
DropTable(s) == [s EXCEPT !.tempExists = FALSE, !.temp = EmptyTable]

\* index of the first record whose primary key repeats an earlier one (0: none)
FirstDup(vals) ==
    LET dups == {i \in 1..Len(vals) : \E j \in 1..(i - 1) : vals[j].id = vals[i].id}
    IN IF dups = {} THEN 0 ELSE CHOOSE i \in dups : \A j \in dups : i <= j

\* mutant: only the first record of the batch is loaded
LoadFirstOnly(vals) ==
    [k \in Keys |-> IF Len(vals) > 0 /\ vals[1].id = k THEN RowOf(vals[1]) ELSE NoRow]

\* connection.execute(temp_table.insert(), values): the rows reach the staging
\* table in list order; the first repeated primary key aborts the statement
LoadedRows(vals) ==
    LET d == FirstDup(vals)
        n == IF d = 0 THEN Len(vals) ELSE d - 1
    IN [k \in Keys |-> IF \E i \in 1..n : vals[i].id = k
                       THEN RowOf(vals[CHOOSE i \in 1..n : vals[i].id = k])
                       ELSE NoRow]

InsertTemp(s, vals) == [s EXCEPT !.temp = LoadedRows(vals)]

\* connection.execute(temp_table.insert(), []): what the insert does with an
\* empty parameter list is decided by the database binding, not by this code;
\* it may insert nothing, insert one row of column defaults (the first
\* generated key of an empty table is 1), or fail on a column without default
DefaultRow == [desc |-> 3, ts |-> 3]

EmptyLoadOutcomes ==
    IF pk_columns = 1 THEN {"no_row", "default_row", "error"} ELSE {"no_row", "error"}

EmptyLoad(s, outcome) ==
    IF outcome = "default_row" THEN [s EXCEPT !.temp[1] = DefaultRow] ELSE s

\* DELETE FROM target WHERE pk IN (SELECT target.pk FROM target JOIN temp ...)
\* mutant: the join on the primary key matches no row
ConflictsNoMatch(s) == {}

Conflicts(s) == KeysOf(s.target) \cap KeysOf(s.temp)

\* mutant: the delete has no WHERE clause
DeleteAllRows(s) == [s EXCEPT !.target = EmptyTable]

DeleteConflicts(s) ==
    [s EXCEPT !.target = [k \in Keys |-> IF k \in Conflicts(s) THEN NoRow ELSE s.target[k]]]

\* INSERT INTO target SELECT * FROM temp
InsertAllFails(s) == Conflicts(s) # {}

InsertAll(s) ==
    [s EXCEPT !.target = [k \in Keys |-> IF s.temp[k] # NoRow THEN s.temp[k] ELSE s.target[k]]]

\* mutant: the anti-join is missing, every staged row counts as unmatched
NoMatchJoinDropped(s) == KeysOf(s.temp)

\* INSERT INTO target SELECT temp.* FROM temp LEFT JOIN target ... WHERE target.pk IS NULL
NoMatch(s) == KeysOf(s.temp) \ KeysOf(s.target)

\* mutant: the insert overwrites matching target rows
InsertOrOverwrite(s) ==
    [s EXCEPT !.target = [k \in Keys |-> IF s.temp[k] # NoRow THEN s.temp[k] ELSE s.target[k]]]

InsertNoMatch(s) ==
    [s EXCEPT !.target = [k \in Keys |-> IF k \in NoMatch(s) THEN s.temp[k] ELSE s.target[k]]]

\* merge: UPDATE target SET <columns> = temp.<columns> WHERE target.pk = temp.pk
MergedRow(old, new, cols) ==
    [desc |-> IF "desc" \in cols THEN new.desc ELSE old.desc,
     ts   |-> IF "ts" \in cols THEN new.ts ELSE old.ts]

UpdateColumns(s, cols) ==
    [s EXCEPT !.target = [k \in Keys |-> IF k \in Conflicts(s)
                                         THEN MergedRow(s.target[k], s.temp[k], cols)
                                         ELSE s.target[k]]]

\* ---------------------------------------------------------------- driver
\* mutant: the connection commits every DML statement as it executes
ExecDMLAutocommit(s) ==
    /\ inTx' = FALSE
    /\ work' = s
    /\ db' = s

\* a DML statement on the operation connection: begins a transaction if none is open
ExecDML(s) ==
    /\ inTx' = TRUE
    /\ work' = s
    /\ db' = db

\* a DDL statement on the operation connection: autocommit outside a transaction
ExecDDL(s) ==
    /\ inTx' = inTx
    /\ work' = s
    /\ db' = IF inTx THEN db ELSE s

\* CursorResult.rowcount for a statement that affected n rows: the count, or -1
\* or None when the driver does not report it, or the attribute access raises
RowcountModes == {"exact", "minus_one", "none", "raises"}

ExactRowcount == [delete |-> "exact", insert |-> "exact"]

Rowcount(mode, n) ==
    CASE mode = "exact" -> [raises |-> FALSE, isNone |-> FALSE, n |-> n]
      [] mode = "minus_one" -> [raises |-> FALSE, isNone |-> FALSE, n |-> -1]
      [] mode = "none" -> [raises |-> FALSE, isNone |-> TRUE, n |-> 0]
      [] mode = "raises" -> [raises |-> TRUE, isNone |-> FALSE, n |-> 0]

\* res.rowcount if res.rowcount is not None else 0
OrZero(r) == IF r.isNone THEN 0 ELSE r.n

\* mutant: after a failed phase the pipeline goes on to the drop statement
RaiseThenDrop(msg) ==
    /\ exc' = msg
    /\ origExc' = msg
    /\ pc' = "drop"

\* an exception inside the try block: to its except clause, or (sqlite.py's
\* insert_or_replace) to its finally clause
Raise(msg) ==
    /\ exc' = msg
    /\ origExc' = msg
    /\ pc' = IF LegacyReplace THEN "finally" ELSE "except"

\* ---------------------------------------------------------------- initial state
KeySeqs == UNION {[1..n -> Keys] : n \in 0..MaxBatch}

\* ---------------------------------------------------------------------------
\* Two invocations at the same time: names and data
\* ---------------------------------------------------------------------------

Invs == {1, 2}

\* strftime("%Y%m%d%H%M%S") keeps the whole second of the clock and drops the
\* rest; the default staging name is "temp_<second>_<table name>"
FormatSecond(t) == t \div TicksPerSecond
DefaultTempName(t) == <<"temp", ToString(FormatSecond(t))>>
\* a name passed as temp_table_name; each caller passes its own
CustomTempName(i) == <<"custom", ToString(i)>>
NoName == <<"none">>

StagingNames ==
    {CustomTempName(i) : i \in Invs} \cup {DefaultTempName(t) : t \in 0..MaxTick}

AbsentTable == [exists |-> FALSE, rows |-> EmptyTable]
NoStaging == [n \in StagingNames |-> AbsentTable]

ConcBatches ==
    {input_data(s) : s \in UNION {[1..n -> Keys] : n \in 0..MaxConcBatch}}

\* the locals of one invocation before it runs
NewInvocation(v, vals, override) ==
    [variant |-> v, values |-> vals, override |-> override, name |-> NoName,
     pc |-> "entry", inTx |-> FALSE, temp_table_created |-> FALSE,
     registered |-> FALSE, updated_rows |-> 0, ignored_rows |-> 0,
     inserted_rows |-> 0, exc |-> "", result |-> <<>>]

\* no concurrent invocation is in play
ConcIdle ==
    /\ cdb = <<>>
    /\ cwork = <<>>
    /\ lock = 0
    /\ clock = 0
    /\ inv = <<>>

\* the state before the call: a target with some rows, no staging table
InitState ==
    /\ ConcIdle
    /\ schema = <<>>
    /\ \E S \in SUBSET Keys :
          db = [target |-> existing_data(S), tempExists |-> FALSE, temp |-> EmptyTable]
    /\ work = db
    /\ inTx = FALSE
    /\ connOpen = (connArg \/ transArg)
    /\ pc = "caller"
    /\ temp_table_created = FALSE
    /\ registered = FALSE
    /\ updated_rows = 0
    /\ ignored_rows = 0
    /\ inserted_rows = 0
    /\ exc = ""
    /\ result = <<>>
    /\ origExc = ""
    /\ wroteBefore = 0
    /\ wroteAfter = 0
    /\ viewAtCall = db.target
    /\ log = <<>>
    /\ run = 1
    /\ first = [target |-> EmptyTable, result |-> <<>>]

Init ==
    /\ variant \in Variants
    /\ values \in {input_data(s) : s \in KeySeqs}
    /\ columns \in IF variant = "merge" THEN (SUBSET NonKeyCols) \ {{}} ELSE {{}}
    /\ connArg \in BOOLEAN
    /\ transArg \in BOOLEAN
    /\ flags \in {f \in SUBSET Flags : Cardinality(f) <= MaxArmed}
    /\ rowcount = ExactRowcount
    /\ api = "package"
    /\ pk_columns = 1
    /\ InitState

\* ---------------------------------------------------------------- the caller
\* the caller's own write inside its transaction, before the call
CallerWriteBefore ==
    /\ pc = "caller"
    /\ connOpen
    /\ wroteBefore = 0
    /\ \E k \in Keys :
          /\ View.target[k] = NoRow
          /\ ExecDML([View EXCEPT !.target[k] = V1Row])
          /\ wroteBefore' = k
    /\ log' = Append(log, "caller_write")
    /\ UNCHANGED <<inputs, outer, connOpen, pc, locals, wroteAfter, viewAtCall>>

Call ==
    /\ pc = "caller"
    /\ pc' = "entry"
    /\ viewAtCall' = View.target
    /\ UNCHANGED <<inputs, outer, dbState, locals, wroteBefore, wroteAfter, log>>

\* ---------------------------------------------------------------- the invocation
\* argument checks and staging descriptor, in the order of the code: the
\* functions return early on an empty batch, then check conn/trans, then clone
\* the descriptor, then read the primary key; UpsertHelper checks conn/trans
\* when it is constructed and run() clones the descriptor at once; merge
\* validates its column list with the other argument checks
Entry ==
    /\ pc = "entry"
    /\ IF api # "helper" /\ values = <<>>
       THEN /\ result' = IF LegacyReplace THEN <<None, None>> ELSE <<0, 0>>
            /\ pc' = "returned"
            /\ log' = Append(log, "return")
            /\ UNCHANGED <<exc, origExc, registered, counts>>
       ELSE IF ~LegacyReplace /\ ~(user_managed \/ auto_managed)
       THEN /\ exc' = "ValueError"
            /\ origExc' = "ValueError"
            /\ pc' = "raised"
            /\ log' = Append(log, "raise")
            /\ UNCHANGED <<result, registered, counts>>
       ELSE IF variant = "merge" /\ InvalidMergeColumns(columns)
       THEN /\ exc' = "InvalidMergeColumns"
            /\ origExc' = "InvalidMergeColumns"
            /\ pc' = "raised"
            /\ log' = Append(log, "raise")
            /\ UNCHANGED <<result, registered, counts>>
       ELSE IF api # "helper" /\ pk_columns # 1
       THEN /\ registered' = TRUE
            /\ exc' = "ValueError: primary key"
            /\ origExc' = "ValueError: primary key"
            /\ pc' = "raised"
            /\ log' = Append(log, "raise")
            /\ UNCHANGED <<result, counts>>
       ELSE /\ registered' = TRUE
            /\ updated_rows' = IF LegacyReplace THEN None ELSE updated_rows
            /\ inserted_rows' = IF LegacyReplace THEN None ELSE inserted_rows
            /\ pc' = IF user_managed THEN "create" ELSE "connect"
            /\ UNCHANGED <<exc, origExc, result, ignored_rows, log>>
    /\ UNCHANGED <<inputs, outer, dbState, temp_table_created, callerHist>>

\* auto-managed: with engine.connect() as connection: with connection.begin()
Connect ==
    /\ pc = "connect"
    /\ connOpen' = TRUE
    /\ log' = log \o <<"connect", "begin">>
    /\ pc' = "create"
    /\ UNCHANGED <<inputs, outer, db, work, inTx, locals, callerHist>>

\* Step 1: create the staging table
StepCreate ==
    /\ pc = "create"
    /\ IF "raise_on_temp_table_create" \in flags
       THEN /\ Raise("error on temp table creation")
            /\ UNCHANGED <<db, work, inTx, temp_table_created, log>>
       ELSE IF View.tempExists
       THEN /\ Raise("OperationalError")
            /\ log' = Append(log, "create")
            /\ UNCHANGED <<db, work, inTx, temp_table_created>>
       ELSE /\ ExecDDL(CreateTable(View))
            /\ temp_table_created' = TRUE
            /\ log' = Append(log, "create")
            /\ pc' = "load"
            /\ UNCHANGED <<exc, origExc>>
    /\ UNCHANGED <<inputs, outer, connOpen, registered, counts, result, callerHist>>

\* mutant: the batch is loaded by one INSERT statement per record
LoadRowByRow ==
    /\ pc = "load"
    /\ IF "raise_on_temp_data_insert" \in flags
       THEN /\ Raise("error on temp data insertion")
            /\ UNCHANGED <<db, work, inTx, log>>
       ELSE IF values = <<>>
       THEN \E outcome \in EmptyLoadOutcomes :
               /\ ExecDML(EmptyLoad(View, outcome))
               /\ log' = Append(log, "load")
               /\ IF outcome = "error"
                  THEN Raise("IntegrityError")
                  ELSE /\ pc' = "insert"
                       /\ UNCHANGED <<exc, origExc>>
       ELSE /\ ExecDML(InsertTemp(View, values))
            /\ log' = log \o [i \in 1..Len(values) |-> "load"]
            /\ IF FirstDup(values) # 0
               THEN Raise("IntegrityError")
               ELSE /\ pc' = CASE variant = "replace" -> "delete"
                               [] variant = "ignore" -> "insert"
                               [] variant = "merge" -> "update"
                    /\ UNCHANGED <<exc, origExc>>
    /\ UNCHANGED <<inputs, outer, connOpen, temp_table_created, registered, counts,
                   result, callerHist>>

\* Step 2: bulk load the batch into the staging table
StepLoad ==
    /\ pc = "load"
    /\ IF "raise_on_temp_data_insert" \in flags
       THEN /\ Raise("error on temp data insertion")
            /\ UNCHANGED <<db, work, inTx, log>>
       ELSE IF values = <<>>
       THEN \E outcome \in EmptyLoadOutcomes :
               /\ ExecDML(EmptyLoad(View, outcome))
               /\ log' = Append(log, "load")
               /\ IF outcome = "error"
                  THEN Raise("IntegrityError")
                  ELSE /\ pc' = "insert"
                       /\ UNCHANGED <<exc, origExc>>
       ELSE /\ ExecDML(InsertTemp(View, values))
            /\ log' = Append(log, "load")
            /\ IF FirstDup(values) # 0
               THEN Raise("IntegrityError")
               ELSE /\ pc' = CASE variant = "replace" -> "delete"
                               [] variant = "ignore" -> "insert"
                               [] variant = "merge" -> "update"
                    /\ UNCHANGED <<exc, origExc>>
    /\ UNCHANGED <<inputs, outer, connOpen, temp_table_created, registered, counts,
                   result, callerHist>>

\* Replace, step 3: delete the target rows that will be replaced
StepDelete ==
    /\ pc = "delete"
    /\ IF "raise_on_target_delete" \in flags
       THEN /\ Raise("error on target deletion")
            /\ UNCHANGED <<db, work, inTx, updated_rows, log>>
       ELSE /\ ExecDML(DeleteConflicts(View))
            /\ LET res == Rowcount(rowcount.delete, Cardinality(Conflicts(View)))
               IN updated_rows' = IF LegacyReplace
                                  THEN (IF res.raises \/ res.isNone THEN None ELSE res.n)
                                  ELSE (IF res.raises THEN 0 ELSE OrZero(res))
            /\ log' = Append(log, "delete")
            /\ pc' = "insert"
            /\ UNCHANGED <<exc, origExc>>
    /\ UNCHANGED <<inputs, outer, connOpen, temp_table_created, registered, ignored_rows,
                   inserted_rows, result, callerHist>>

\* merge: update the listed columns of the conflicting target rows
StepUpdate ==
    /\ pc = "update"
    /\ IF "raise_on_target_delete" \in flags
       THEN /\ Raise("error on target deletion")
            /\ UNCHANGED <<db, work, inTx, updated_rows, log>>
       ELSE /\ ExecDML(UpdateColumns(View, columns))
            /\ updated_rows' = Cardinality(Conflicts(View))
            /\ log' = Append(log, "update")
            /\ pc' = "insert"
            /\ UNCHANGED <<exc, origExc>>
    /\ UNCHANGED <<inputs, outer, connOpen, temp_table_created, registered, ignored_rows,
                   inserted_rows, result, callerHist>>

\* mutant: every inserted row is counted as new, replaced rows included
InsertReplaceCountsAll ==
    /\ variant = "replace"
    /\ api # "legacy"
    /\ ExecDML(IF InsertAllFails(View) THEN View ELSE InsertAll(View))
    /\ log' = Append(log, "insert")
    /\ IF InsertAllFails(View)
       THEN /\ Raise("IntegrityError")
            /\ UNCHANGED <<ignored_rows, inserted_rows>>
       ELSE /\ inserted_rows' = Cardinality(KeysOf(View.temp))
            /\ pc' = "drop"
            /\ UNCHANGED <<exc, origExc, ignored_rows>>

\* insert_or_replace, step 4: insert every staged row into the target
InsertReplace ==
    /\ variant = "replace"
    /\ api # "legacy"
    /\ ExecDML(IF InsertAllFails(View) THEN View ELSE InsertAll(View))
    /\ log' = Append(log, "insert")
    /\ IF InsertAllFails(View)
       THEN /\ Raise("IntegrityError")
            /\ UNCHANGED <<ignored_rows, inserted_rows>>
       ELSE /\ LET res == Rowcount(rowcount.insert, Cardinality(KeysOf(View.temp)))
                   total_inserted == OrZero(res)
               IN inserted_rows' = IF res.raises
                                   THEN Len(values) - updated_rows
                                   ELSE total_inserted - updated_rows
            /\ pc' = "drop"
            /\ UNCHANGED <<exc, origExc, ignored_rows>>

\* mutant: insert_or_ignore deletes the matching target rows and inserts every
\* staged row, as insert_or_replace does
InsertIgnoreAfterDelete ==
    /\ variant = "ignore"
    /\ ExecDML(InsertAll(DeleteConflicts(View)))
    /\ log' = log \o <<"delete", "insert">>
    /\ LET res == Rowcount(rowcount.insert, Cardinality(NoMatch(View)))
       IN inserted_rows' = IF res.raises THEN 0 ELSE OrZero(res)
    /\ ignored_rows' = Len(values) - inserted_rows'
    /\ pc' = "drop"
    /\ UNCHANGED <<exc, origExc>>

\* insert_or_ignore, step 3: insert the staged rows that have no match in the target
InsertIgnore ==
    /\ variant = "ignore"
    /\ ExecDML(InsertNoMatch(View))
    /\ log' = Append(log, "insert")
    /\ LET res == Rowcount(rowcount.insert, Cardinality(NoMatch(View)))
       IN inserted_rows' = IF res.raises THEN 0 ELSE OrZero(res)
    /\ ignored_rows' = Len(values) - inserted_rows'
    /\ pc' = "drop"
    /\ UNCHANGED <<exc, origExc>>

\* merge: insert the staged rows that have no match in the target
InsertMerge ==
    /\ variant = "merge"
    /\ ExecDML(InsertNoMatch(View))
    /\ log' = Append(log, "insert")
    /\ inserted_rows' = Cardinality(NoMatch(View))
    /\ pc' = "drop"
    /\ UNCHANGED <<exc, origExc, ignored_rows>>

\* sqlite.py's insert_or_replace, step 4: the raw rowcounts, no None guard; a
\* failing subtraction is swallowed and leaves inserted_rows None
InsertLegacyReplace ==
    /\ LegacyReplace
    /\ ExecDML(IF InsertAllFails(View) THEN View ELSE InsertAll(View))
    /\ log' = Append(log, "insert")
    /\ IF InsertAllFails(View)
       THEN /\ Raise("IntegrityError")
            /\ UNCHANGED <<ignored_rows, inserted_rows>>
       ELSE /\ LET res == Rowcount(rowcount.insert, Cardinality(KeysOf(View.temp)))
               IN inserted_rows' = IF res.raises \/ res.isNone \/ updated_rows = None
                                   THEN None
                                   ELSE res.n - updated_rows
            /\ pc' = "finally"
            /\ UNCHANGED <<exc, origExc, ignored_rows>>

\* UpsertHelper: the core logic reads pk_name, which is computed on first use
StepInsert ==
    /\ pc = "insert"
    /\ IF "raise_on_target_insert" \in flags
       THEN /\ Raise("error on target insertion")
            /\ UNCHANGED <<db, work, inTx, ignored_rows, inserted_rows, log>>
       ELSE IF api = "helper" /\ pk_columns # 1
       THEN /\ Raise("ValueError: primary key")
            /\ UNCHANGED <<db, work, inTx, ignored_rows, inserted_rows, log>>
       ELSE InsertReplace \/ InsertLegacyReplace \/ InsertIgnore \/ InsertMerge
    /\ UNCHANGED <<inputs, outer, connOpen, temp_table_created, registered, updated_rows,
                   result, callerHist>>

\* last step: drop the staging table on the operation's connection and return
StepDrop ==
    /\ pc = "drop"
    /\ IF temp_table_created /\ "raise_on_temp_table_drop" \in flags
       THEN /\ Raise("error on temp table cleanup")
            /\ UNCHANGED <<db, work, inTx, temp_table_created, registered, result, log>>
       ELSE /\ IF temp_table_created
               THEN /\ ExecDDL(DropTable(View))
                    /\ registered' = FALSE
                    /\ temp_table_created' = FALSE
                    /\ log' = Append(log, "drop")
               ELSE UNCHANGED <<db, work, inTx, registered, temp_table_created, log>>
            /\ result' = IF variant = "ignore"
                         THEN <<ignored_rows, inserted_rows>>
                         ELSE <<updated_rows, inserted_rows>>
            /\ pc' = IF user_managed THEN "returned" ELSE "exit_ok"
            /\ UNCHANGED <<exc, origExc>>
    /\ UNCHANGED <<inputs, outer, connOpen, counts, callerHist>>

\* mutant: the failure path rolls back and closes whatever transaction it runs in
ExceptManagesTransaction ==
    /\ pc = "except"
    /\ exc' = IF temp_table_created /\ "raise_on_temp_table_drop" \in flags
              THEN "error on temp table cleanup"
              ELSE exc
    /\ pc' = "exit_fail"
    /\ UNCHANGED <<inputs, outer, dbState, temp_table_created, registered, counts, result,
                   origExc, callerHist, log>>

\* except Exception as e: in _execute_upsert_logic
Except ==
    /\ pc = "except"
    /\ exc' = IF temp_table_created /\ "raise_on_temp_table_drop" \in flags
              THEN "error on temp table cleanup"
              ELSE exc
    /\ pc' = IF user_managed THEN "cleanup" ELSE "exit_fail"
    /\ UNCHANGED <<inputs, outer, dbState, temp_table_created, registered, counts, result,
                   origExc, callerHist, log>>

\* mutant: the connection is closed without committing
ExitOkWithoutCommit ==
    /\ pc = "exit_ok"
    /\ db' = db
    /\ work' = db
    /\ inTx' = FALSE
    /\ connOpen' = FALSE
    /\ log' = log \o <<"close", "return">>
    /\ pc' = "returned"
    /\ UNCHANGED <<inputs, outer, locals, callerHist>>

\* auto-managed: the with blocks exit normally: commit, close
ExitOk ==
    /\ pc = "exit_ok"
    /\ db' = work
    /\ work' = work
    /\ inTx' = FALSE
    /\ connOpen' = FALSE
    /\ log' = log \o <<"commit", "close", "return">>
    /\ pc' = "returned"
    /\ UNCHANGED <<inputs, outer, locals, callerHist>>

\* mutant: the transaction is committed when the block exits on an exception
ExitFailCommits ==
    /\ pc = "exit_fail"
    /\ db' = work
    /\ work' = work
    /\ inTx' = FALSE
    /\ connOpen' = FALSE
    /\ log' = log \o <<"rollback", "close">>
    /\ pc' = "cleanup"
    /\ UNCHANGED <<inputs, outer, locals, callerHist>>

\* auto-managed: the with blocks exit on an exception: rollback, close
ExitFail ==
    /\ pc = "exit_fail"
    /\ db' = db
    /\ work' = db
    /\ inTx' = FALSE
    /\ connOpen' = FALSE
    /\ log' = log \o <<"rollback", "close">>
    /\ pc' = "cleanup"
    /\ UNCHANGED <<inputs, outer, locals, callerHist>>

\* sqlite.py's insert_or_replace, finally clause: drop the staging table on a
\* fresh connection while the operation's transaction is still open; errors are
\* swallowed and then the descriptor stays registered; the return value, if
\* any, has been computed
LegacyFinally ==
    /\ pc = "finally"
    /\ IF ~db.tempExists \/ (connOpen /\ inTx)
       THEN /\ UNCHANGED <<db, work, registered>>
            /\ log' = log \o <<"cleanup", "cleanup_connect", "cleanup_failed">>
       ELSE /\ db' = DropTable(db)
            /\ work' = DropTable(db)
            /\ registered' = FALSE
            /\ log' = log \o <<"cleanup", "cleanup_connect", "cleanup_drop">>
    /\ result' = IF exc = "" THEN <<updated_rows, inserted_rows>> ELSE result
    /\ pc' = IF exc = "" THEN "exit_ok" ELSE "legacy_exit_fail"
    /\ UNCHANGED <<inputs, outer, inTx, connOpen, temp_table_created, counts, exc,
                   origExc, callerHist>>

\* sqlite.py's insert_or_replace: engine.begin() exits on the exception:
\* rollback, close, and the exception reaches the caller
LegacyExitFail ==
    /\ pc = "legacy_exit_fail"
    /\ db' = db
    /\ work' = db
    /\ inTx' = FALSE
    /\ connOpen' = FALSE
    /\ log' = log \o <<"rollback", "close", "raise">>
    /\ pc' = "raised"
    /\ UNCHANGED <<inputs, outer, locals, callerHist>>

\* the fresh connection's DROP TABLE fails: the table is not visible to it, or
\* the operation connection still holds the write lock
CleanupDropFails == ~db.tempExists \/ (connOpen /\ inTx)

\* mutant: cleanup drops the table on the operation's connection and commits it
CleanupOnOperationConnection ==
    /\ pc = "cleanup"
    /\ IF temp_table_created
       THEN /\ db' = DropTable(View)
            /\ work' = DropTable(View)
            /\ inTx' = FALSE
            /\ registered' = FALSE
            /\ log' = log \o <<"cleanup", "cleanup_drop", "raise">>
       ELSE /\ UNCHANGED <<db, work, inTx, registered>>
            /\ log' = log \o <<"cleanup", "raise">>
    /\ pc' = "raised"
    /\ UNCHANGED <<inputs, outer, connOpen, temp_table_created, counts, exc, result,
                   origExc, callerHist>>

\* mutant: cleanup tries the drop whether or not the table was created
CleanupWithoutFlagCheck ==
    /\ pc = "cleanup"
    /\ IF CleanupDropFails
       THEN /\ UNCHANGED <<db, work>>
            /\ log' = log \o <<"cleanup", "cleanup_connect", "cleanup_failed", "raise">>
       ELSE /\ db' = DropTable(db)
            /\ work' = DropTable(db)
            /\ log' = log \o <<"cleanup", "cleanup_connect", "cleanup_drop", "raise">>
    /\ registered' = FALSE
    /\ pc' = "raised"
    /\ UNCHANGED <<inputs, outer, inTx, connOpen, temp_table_created, counts, exc, result,
                   origExc, callerHist>>

\* mutant: the fresh connection's DROP TABLE waits for the write lock without a
\* timeout
CleanupWaitsForLock ==
    /\ pc = "cleanup"
    /\ ~(temp_table_created /\ connOpen /\ inTx)
    /\ IF temp_table_created
       THEN /\ IF CleanupDropFails
               THEN /\ UNCHANGED <<db, work>>
                    /\ log' = log \o <<"cleanup", "cleanup_connect", "cleanup_failed", "raise">>
               ELSE /\ db' = DropTable(db)
                    /\ work' = DropTable(db)
                    /\ log' = log \o <<"cleanup", "cleanup_connect", "cleanup_drop", "raise">>
            /\ registered' = FALSE
       ELSE /\ UNCHANGED <<db, work, registered>>
            /\ log' = log \o <<"cleanup", "raise">>
    /\ pc' = "raised"
    /\ UNCHANGED <<inputs, outer, inTx, connOpen, temp_table_created, counts, exc, result,
                   origExc, callerHist>>

\* _cleanup_temp_table, then the exception is re-raised
Cleanup ==
    /\ pc = "cleanup"
    /\ IF temp_table_created
       THEN /\ IF CleanupDropFails
               THEN /\ UNCHANGED <<db, work>>
                    /\ log' = log \o <<"cleanup", "cleanup_connect", "cleanup_failed", "raise">>
               ELSE /\ db' = DropTable(db)
                    /\ work' = DropTable(db)
                    /\ log' = log \o <<"cleanup", "cleanup_connect", "cleanup_drop", "raise">>
            /\ registered' = FALSE
       ELSE /\ UNCHANGED <<db, work, registered>>
            /\ log' = log \o <<"cleanup", "raise">>
    /\ pc' = "raised"
    /\ UNCHANGED <<inputs, outer, inTx, connOpen, temp_table_created, counts, exc, result,
                   origExc, callerHist>>

\* ---------------------------------------------------------------- the caller, after the call
\* the caller's own write inside its transaction, after a successful call
CallerWriteAfter ==
    /\ pc = "returned"
    /\ connOpen
    /\ wroteAfter = 0
    /\ \E k \in Keys :
          /\ View.target[k] = NoRow
          /\ ExecDML([View EXCEPT !.target[k] = V1Row])
          /\ wroteAfter' = k
    /\ log' = Append(log, "caller_write")
    /\ UNCHANGED <<inputs, outer, connOpen, pc, locals, wroteBefore, viewAtCall>>

\* the caller's with blocks exit normally: the caller commits
CallerCommit ==
    /\ pc = "returned"
    /\ connOpen
    /\ db' = work
    /\ work' = work
    /\ inTx' = FALSE
    /\ connOpen' = FALSE
    /\ log' = log \o <<"caller_commit", "caller_close">>
    /\ pc' = "done"
    /\ UNCHANGED <<inputs, outer, locals, callerHist>>

\* the call raised, or the caller raises after it: the caller's with blocks roll back
CallerRollback ==
    /\ pc \in {"returned", "raised"}
    /\ connOpen
    /\ db' = db
    /\ work' = db
    /\ inTx' = FALSE
    /\ connOpen' = FALSE
    /\ log' = log \o <<"caller_rollback", "caller_close">>
    /\ pc' = "done"
    /\ UNCHANGED <<inputs, outer, locals, callerHist>>

Next ==
    \/ CallerWriteBefore
    \/ Call
    \/ Entry
    \/ Connect
    \/ StepCreate
    \/ StepLoad
    \/ StepDelete
    \/ StepUpdate
    \/ StepInsert
    \/ StepDrop
    \/ Except
    \/ ExitOk
    \/ ExitFail
    \/ Cleanup
    \/ CallerWriteAfter
    \/ CallerCommit
    \/ CallerRollback

Spec == Init /\ [][Next]_vars

\* ---------------------------------------------------------------- the same call, twice
\* after a successful call the caller makes the same call again, with the same
\* arguments and no write of its own in between: in auto-managed mode after the
\* commit, in user-managed mode inside the same open transaction; the history
\* of statements starts afresh
CallAgain ==
    /\ pc = "returned"
    /\ run = 1
    /\ wroteAfter = 0
    /\ run' = 2
    /\ first' = [target |-> View.target, result |-> result]
    /\ viewAtCall' = View.target
    /\ result' = <<>>
    /\ updated_rows' = 0
    /\ ignored_rows' = 0
    /\ inserted_rows' = 0
    /\ log' = <<>>
    /\ pc' = "entry"
    /\ UNCHANGED <<inputs, conc, schema, dbState, temp_table_created, registered, exc,
                   origExc, wroteBefore, wroteAfter>>

InitTwice ==
    /\ variant \in Variants
    /\ values \in {input_data(s) : s \in KeySeqs}
    /\ columns \in IF variant = "merge" THEN (SUBSET NonKeyCols) \ {{}} ELSE {{}}
    /\ connArg \in BOOLEAN
    /\ transArg \in BOOLEAN
    /\ flags = {}
    /\ rowcount = ExactRowcount
    /\ api = "package"
    /\ pk_columns = 1
    /\ InitState

NextTwice == Next \/ CallAgain

SpecTwice == InitTwice /\ [][NextTwice]_vars

\* ---------------------------------------------------------------- the three implementations
\* the functions of the sqlite/ package, the functions of sqlite.py and the
\* UpsertHelper.run pipeline, on a target with zero, one or more primary-key
\* columns.  UpsertHelper.execute_core_upsert_logic is abstract: the pipeline
\* is taken with the insert-or-ignore core its docstring and its return value
\* (ignored_rows, inserted_rows) describe.  Without a single-column primary
\* key the staged rows are a function of id only for batches with distinct
\* ids: those are the batches enumerated for such tables.
InitApi ==
    /\ api \in Apis
    /\ variant \in IF api = "helper" THEN {"ignore"} ELSE {"replace", "ignore"}
    /\ pk_columns \in 0..MaxPk
    /\ values \in {v \in {input_data(s) : s \in KeySeqs} : pk_columns # 1 => UniqueKeys(v)}
    /\ columns = {}
    /\ connArg \in IF LegacyReplace THEN {FALSE} ELSE BOOLEAN
    /\ transArg \in IF LegacyReplace THEN {FALSE} ELSE BOOLEAN
    /\ flags \in IF LegacyReplace THEN {{}} ELSE {f \in SUBSET Flags : Cardinality(f) <= 1}
    /\ rowcount = ExactRowcount
    /\ InitState

NextApi ==
    \/ Call
    \/ Entry
    \/ Connect
    \/ StepCreate
    \/ StepLoad
    \/ StepDelete
    \/ StepInsert
    \/ StepDrop
    \/ Except
    \/ ExitOk
    \/ ExitFail
    \/ Cleanup
    \/ LegacyFinally
    \/ LegacyExitFail
    \/ CallerCommit
    \/ CallerRollback

SpecApi == InitApi /\ [][NextApi]_vars

\* ---------------------------------------------------------------- merge column lists
\* merge called with any list of column names, valid or not
InitMerge ==
    /\ variant = "merge"
    /\ values \in {input_data(s) : s \in KeySeqs}
    /\ columns \in SUBSET MergeColumnNames
    /\ connArg \in BOOLEAN
    /\ transArg \in BOOLEAN
    /\ flags \in {f \in SUBSET Flags : Cardinality(f) <= 1}
    /\ rowcount = ExactRowcount
    /\ api = "package"
    /\ pk_columns = 1
    /\ InitState

NextMerge ==
    \/ Call
    \/ Entry
    \/ Connect
    \/ StepCreate
    \/ StepLoad
    \/ StepUpdate
    \/ StepInsert
    \/ StepDrop
    \/ Except
    \/ ExitOk
    \/ ExitFail
    \/ Cleanup
    \/ CallerCommit
    \/ CallerRollback

SpecMerge == InitMerge /\ [][NextMerge]_vars

\* ---------------------------------------------------------------- unreported rowcounts
\* insert_or_replace and insert_or_ignore on a driver that may report the
\* rowcount of the delete and of the insert as -1 or None (DB-API: "-1 in case
\* the rowcount of the last operation cannot be determined"), or raise when it
\* is read; no flag is armed
InitRowcount ==
    /\ variant \in {"replace", "ignore"}
    /\ values \in {input_data(s) : s \in KeySeqs}
    /\ columns = {}
    /\ connArg \in BOOLEAN
    /\ transArg \in BOOLEAN
    /\ flags = {}
    /\ rowcount \in [delete : RowcountModes, insert : RowcountModes]
    /\ api = "package"
    /\ pk_columns = 1
    /\ InitState

NextRowcount ==
    \/ Call
    \/ Entry
    \/ Connect
    \/ StepCreate
    \/ StepLoad
    \/ StepDelete
    \/ StepInsert
    \/ StepDrop
    \/ Except
    \/ ExitOk
    \/ ExitFail
    \/ Cleanup
    \/ CallerCommit
    \/ CallerRollback

SpecRowcount == InitRowcount /\ [][NextRowcount]_vars

\* ---------------------------------------------------------------- expected results
RecordFor(vals, k) == RowOf(vals[CHOOSE i \in 1..Len(vals) : vals[i].id = k])

Existing(vals, view) == BatchKeys(vals) \cap KeysOf(view)
Absent(vals, view) == BatchKeys(vals) \ KeysOf(view)

ReplaceExpected(view, vals) ==
    [k \in Keys |-> IF k \in BatchKeys(vals) THEN RecordFor(vals, k) ELSE view[k]]

IgnoreExpected(view, vals) ==
    [k \in Keys |-> IF k \in Absent(vals, view) THEN RecordFor(vals, k) ELSE view[k]]

MergeExpected(view, vals, cols) ==
    [k \in Keys |->
        IF k \in Absent(vals, view) THEN RecordFor(vals, k)
        ELSE IF k \in Existing(vals, view)
        THEN [c \in NonKeyCols |-> IF c \in cols THEN RecordFor(vals, k)[c] ELSE view[k][c]]
        ELSE view[k]]

Expected(view) ==
    CASE variant = "replace" -> ReplaceExpected(view, values)
      [] variant = "ignore" -> IgnoreExpected(view, values)
      [] variant = "merge" -> MergeExpected(view, values, columns)

Has(e) == \E i \in 1..Len(log) : log[i] = e
Count(e) == Cardinality({i \in 1..Len(log) : log[i] = e})
Pos(e) == CHOOSE i \in 1..Len(log) : log[i] = e

\* target rows committed before the caller's transaction began
PreTx == IF wroteBefore = 0 THEN viewAtCall ELSE [viewAtCall EXCEPT ![wroteBefore] = NoRow]

WithCallerWrite(t) == IF wroteAfter = 0 THEN t ELSE [t EXCEPT ![wroteAfter] = V1Row]

\* events that open a connection or issue a statement
DatabaseEvents == {"connect", "begin", "create", "load", "delete", "update", "insert",
                   "drop", "cleanup_connect", "cleanup_drop"}

NoDatabaseWork == \A i \in 1..Len(log) : log[i] \notin DatabaseEvents

Succeeded == result # <<>>
Failed == exc # ""

\* the call is over and its owning transaction has been committed or rolled back
AutoSettled == auto_managed /\ pc \in {"returned", "raised"}
UserSettled == user_managed /\ pc = "done"

\* ---------------------------------------------------------------- claims
\* C1: once an insert_or_ignore or insert_or_replace call has returned or raised
\* and its owning transaction has been committed (on success) or rolled back
\* (on failure), the database contains no staging table created by the call.
C1_NoOrphanedStagingTable ==
    (/\ variant \in {"replace", "ignore"}
     /\ \/ AutoSettled
        \/ UserSettled /\ Succeeded /\ Has("caller_commit")
        \/ UserSettled /\ Failed /\ Has("caller_rollback"))
    => ~db.tempExists

\* C2: auto-managed mode, a single armed fault flag: after the failing call the
\* target table holds exactly the rows it held before the call.
C2_AutoRollbackComplete ==
    (auto_managed /\ Cardinality(flags) = 1 /\ pc = "raised")
    => db.target = viewAtCall

C2_Witness ==
    /\ auto_managed
    /\ variant = "replace"
    /\ flags = {"raise_on_target_insert"}
    /\ pc = "raised"
    /\ Has("delete")
    /\ updated_rows > 0
    /\ db.target = viewAtCall

\* C3: the exception that reaches the caller is the exception raised by the
\* failing phase.
C3_OriginalErrorPreserved ==
    pc = "raised" => exc = origExc

\* C4: user-managed mode: the engine never commits, rolls back or closes the
\* caller's transaction; when the call returns or raises the connection is open
\* and the caller's earlier write is still pending in its open transaction.
C4_UserTransactionUntouched ==
    (user_managed /\ pc \in {"returned", "raised"})
    => /\ ~Has("commit") /\ ~Has("rollback") /\ ~Has("close")
       /\ connOpen
       /\ wroteBefore # 0 => (inTx /\ db.target = PreTx)

C4_Witness ==
    /\ user_managed
    /\ pc = "raised"
    /\ wroteBefore # 0
    /\ Has("cleanup_connect")
    /\ inTx
    /\ work.target # db.target

\* C5: user-managed mode with the caller's own writes in the transaction: when
\* the call raises, or the caller raises after a successful call, then after the
\* caller's rollback the target holds the rows it held before the caller's
\* transaction began and no staging table exists.
C5_UserRollbackComplete ==
    (UserSettled /\ wroteBefore # 0 /\ Has("caller_rollback"))
    => (db.target = PreTx /\ ~db.tempExists)

C5_Witness ==
    /\ UserSettled
    /\ wroteBefore # 0
    /\ wroteAfter # 0
    /\ Succeeded
    /\ Has("caller_rollback")
    /\ Has("drop")
    /\ db.target = PreTx
    /\ ~db.tempExists

\* C6: every committed state of the target shows either none of the
\* invocation's reconciliation statements or all of them.
C6_NoPartialSuccess ==
    \/ db.target = PreTx
    \/ Succeeded /\ db.target = WithCallerWrite(Expected(viewAtCall))

C6_Witness ==
    /\ UserSettled
    /\ variant = "replace"
    /\ Failed
    /\ Has("delete")
    /\ ~Has("insert")
    /\ updated_rows > 0
    /\ db.target = PreTx

\* C7: auto-managed mode with a non-empty batch: one connection and one
\* transaction are opened; the transaction is committed exactly once and only
\* after the staging drop; on an exception it is never committed, it is rolled
\* back first, then cleanup runs, then the exception is re-raised.
C7_AutoTransactionOrdering ==
    (auto_managed /\ values # <<>>)
    => /\ Count("connect") <= 1 /\ Count("begin") <= 1 /\ Count("commit") <= 1
       /\ pc = "returned" =>
             /\ Count("connect") = 1 /\ Count("begin") = 1
             /\ Count("commit") = 1 /\ ~Has("rollback")
             /\ Has("drop") /\ Pos("drop") < Pos("commit")
             /\ Pos("commit") < Pos("return")
       /\ pc = "raised" =>
             /\ Count("connect") = 1 /\ Count("begin") = 1
             /\ ~Has("commit") /\ Count("rollback") = 1
             /\ Count("cleanup") = 1 /\ Count("raise") = 1
             /\ Pos("rollback") < Pos("cleanup")
             /\ Pos("cleanup") < Pos("raise")

C7_Witness ==
    /\ auto_managed
    /\ pc = "raised"
    /\ Has("cleanup_drop")
    /\ Pos("rollback") < Pos("cleanup_drop")

\* C8: after a successful insert_or_replace the target holds the prior rows
\* whose key is not in the batch, unchanged, plus every batch row in full; the
\* returned pair is (batch keys that existed, batch keys that did not).
C8_ReplaceResult ==
    (variant = "replace" /\ pc = "returned" /\ wroteAfter = 0)
    => /\ View.target = ReplaceExpected(viewAtCall, values)
       /\ result = <<Cardinality(Existing(values, viewAtCall)),
                     Cardinality(Absent(values, viewAtCall))>>

C8_Witness ==
    /\ variant = "replace"
    /\ pc = "returned"
    /\ wroteAfter = 0
    /\ result = <<1, 1>>
    /\ \E k \in Keys : k \notin BatchKeys(values) /\ View.target[k] = V1Row
    /\ \E k \in Keys : viewAtCall[k] = V1Row /\ View.target[k] = V2Row

\* C9: after a successful insert_or_ignore the target holds every prior row
\* unchanged plus the batch rows whose key was absent; the returned pair is
\* (batch keys already present, batch keys inserted).
C9_IgnoreResult ==
    (variant = "ignore" /\ pc = "returned" /\ wroteAfter = 0)
    => /\ View.target = IgnoreExpected(viewAtCall, values)
       /\ result = <<Cardinality(Existing(values, viewAtCall)),
                     Cardinality(Absent(values, viewAtCall))>>

C9_Witness ==
    /\ variant = "ignore"
    /\ pc = "returned"
    /\ wroteAfter = 0
    /\ result = <<1, 1>>
    /\ \E k \in BatchKeys(values) : viewAtCall[k] = V1Row /\ View.target[k] = V1Row
    /\ \E k \in BatchKeys(values) : viewAtCall[k] = NoRow /\ View.target[k] = V2Row

\* C10: after a successful merge every conflicting target row has the batch's
\* values in exactly the listed columns and its previous values elsewhere, every
\* absent batch row is inserted in full, and the returned pair is
\* (conflicting keys, new keys).
C10_MergeColumnIsolation ==
    (variant = "merge" /\ pc = "returned" /\ wroteAfter = 0)
    => /\ View.target = MergeExpected(viewAtCall, values, columns)
       /\ result = <<Cardinality(Existing(values, viewAtCall)),
                     Cardinality(Absent(values, viewAtCall))>>

C10_Witness ==
    /\ variant = "merge"
    /\ columns = {"ts"}
    /\ pc = "returned"
    /\ wroteAfter = 0
    /\ result = <<1, 1>>
    /\ \E k \in BatchKeys(values) :
          viewAtCall[k] = V1Row /\ View.target[k] = [desc |-> V1Row.desc, ts |-> V2Row.ts]
    /\ \E k \in BatchKeys(values) : viewAtCall[k] = NoRow /\ View.target[k] = V2Row

\* C11: insert_or_replace and insert_or_ignore: for every successful call whose
\* batch has no repeated primary key, the two returned counts sum to the batch
\* size.
C11_Conservation ==
    (variant \in {"replace", "ignore"} /\ Succeeded /\ UniqueKeys(values))
    => result[1] + result[2] = Len(values)

C11_Witness ==
    /\ variant = "replace"
    /\ Succeeded
    /\ UniqueKeys(values)
    /\ Len(values) = 2
    /\ result[1] = 1
    /\ result[2] = 1
    /\ Has("delete")
    /\ Has("insert")

\* C12: for every successful insert_or_replace or insert_or_ignore call both
\* returned counts are integers between 0 and the batch size, also when the
\* driver reports the rowcount of the delete or of the insert as None or -1;
\* a delete count the driver does not report is returned as 0.
C12_CountsNonNegative ==
    (variant \in {"replace", "ignore"} /\ Succeeded)
    => /\ result[1] \in 0..Len(values)
       /\ result[2] \in 0..Len(values)
       /\ (variant = "replace" /\ values # <<>> /\ rowcount.delete # "exact")
              => result[1] = 0

\* C13: insert_or_ignore called a second time with the same batch and no other
\* write in between inserts no row, reports every batch row as ignored, and
\* leaves the target as it was after the first call.
C13_IgnoreIdempotent ==
    (variant = "ignore" /\ run = 2 /\ pc = "returned" /\ wroteAfter = 0)
    => /\ result = <<Len(values), 0>>
       /\ View.target = first.target

C13_Witness ==
    /\ variant = "ignore"
    /\ run = 2
    /\ pc = "returned"
    /\ Len(values) = 2
    /\ first.result = <<1, 1>>
    /\ result = <<2, 0>>
    /\ Has("insert")
    /\ View.target = first.target

\* C14: for the functions of sqlite.py and of the sqlite/ package and for
\* UpsertHelper.run, a call with an empty batch (and consistent conn/trans
\* arguments) opens no connection, issues no statement, creates no staging
\* table, leaves the target unchanged, and ends by returning (0, 0).
C14_EmptyBatchNoOp ==
    (values = <<>> /\ (user_managed \/ auto_managed) /\ pc \notin {"caller", "done"})
    => /\ NoDatabaseWork
       /\ ~View.tempExists /\ ~db.tempExists
       /\ View.target = WithCallerWrite(viewAtCall)
       /\ ~Failed
       /\ Succeeded => result = <<0, 0>>

\* C15: a call with exactly one of conn and trans, whatever the batch, fails
\* with the ValueError of the argument check before any connection is opened,
\* any statement issued or any staging descriptor registered; a call with
\* both or neither never raises that error.
C15_TransactionArguments ==
    /\ (connArg # transArg /\ pc \notin {"caller", "entry"})
          => /\ exc = "ValueError"
             /\ ~Succeeded
             /\ NoDatabaseWork
             /\ ~registered
    /\ (connArg = transArg) => exc # "ValueError"

\* C16: a non-empty call (consistent conn/trans) on a target with zero or with
\* more than one primary-key column is rejected with the ValueError of the
\* primary-key check before any staging work: no connection or statement, no
\* staging table, and no staging descriptor left registered; for the
\* functions and for UpsertHelper.run.
C16_PrimaryKeyPrecondition ==
    (/\ pk_columns # 1
     /\ values # <<>>
     /\ user_managed \/ auto_managed
     /\ pc \notin {"caller", "entry"})
    => /\ exc = "ValueError: primary key"
       /\ ~Succeeded
       /\ NoDatabaseWork
       /\ ~View.tempExists /\ ~db.tempExists
       /\ ~registered

\* the statements of an invocation, in phase order
Phases ==
    IF variant = "replace" THEN <<"create", "load", "delete", "insert", "drop">>
    ELSE <<"create", "load", "insert", "drop">>

\* the phase a testing flag guards, and the message of its UpsertTestError
FlagPhase(f) ==
    CASE f = "raise_on_temp_table_create" -> "create"
      [] f = "raise_on_temp_data_insert" -> "load"
      [] f = "raise_on_target_delete" -> "delete"
      [] f = "raise_on_target_insert" -> "insert"
      [] f = "raise_on_temp_table_drop" -> "drop"

FlagMessage(f) ==
    CASE f = "raise_on_temp_table_create" -> "error on temp table creation"
      [] f = "raise_on_temp_data_insert" -> "error on temp data insertion"
      [] f = "raise_on_target_delete" -> "error on target deletion"
      [] f = "raise_on_target_insert" -> "error on target insertion"
      [] f = "raise_on_temp_table_drop" -> "error on temp table cleanup"

InjectedMessages == {FlagMessage(f) : f \in Flags}

PhaseIndex(ph) == CHOOSE i \in 1..Len(Phases) : Phases[i] = ph

\* every phase before ph has issued its statement, ph and the later ones have not
StoppedBefore(ph) ==
    \A i \in 1..Len(Phases) :
        IF i < PhaseIndex(ph) THEN Has(Phases[i]) ELSE ~Has(Phases[i])

\* C17: insert_or_replace and insert_or_ignore with exactly one testing flag
\* armed (one the function has): a non-empty call never returns normally; an
\* UpsertTestError that reaches the caller carries the message of the armed
\* flag's phase, every earlier phase has issued its statement, and the armed
\* phase and the later ones have issued none.  With no flag armed no
\* UpsertTestError is raised.
C17_FaultAtItsPoint ==
    /\ \A f \in Flags :
          (/\ flags = {f}
           /\ variant \in {"replace", "ignore"}
           /\ \E i \in 1..Len(Phases) : Phases[i] = FlagPhase(f)
           /\ values # <<>>)
          => /\ ~Succeeded
             /\ (pc = "raised" /\ exc \in InjectedMessages)
                   => (exc = FlagMessage(f) /\ StoppedBefore(FlagPhase(f)))
    /\ flags = {} => exc \notin InjectedMessages

SnapOf(d, n) ==
    [target |-> d.target, tempExists |-> d.temps[n].exists, temp |-> d.temps[n].rows]

WithSnap(d, n, sn) ==
    [target |-> sn.target,
     temps |-> [d.temps EXCEPT ![n] = [exists |-> sn.tempExists, rows |-> sn.temp]]]

\* what invocation i's operation connection sees
CView(i) == IF lock = i THEN cwork ELSE cdb

LockedOut(i) == lock # 0 /\ lock # i

\* the statement failed: leave the try block; the except clause re-raises as is
CRaise(i, msg) == [inv[i] EXCEPT !.exc = msg, !.pc = "exit_fail"]

\* empty-batch return, then clone_temp_table: the staging name is the override
\* or is built from the clock, and the descriptor is registered in the metadata
CEntry(i) ==
    /\ inv[i].pc = "entry"
    /\ IF inv[i].values = <<>>
       THEN /\ inv' = [inv EXCEPT ![i].result = <<0, 0>>, ![i].pc = "returned"]
            /\ UNCHANGED clock
       ELSE IF inv[i].override
       THEN /\ inv' = [inv EXCEPT ![i].name = CustomTempName(i),
                                  ![i].registered = TRUE,
                                  ![i].pc = "create"]
            /\ UNCHANGED clock
       ELSE \E t \in clock..MaxTick :
               /\ clock' = t
               /\ inv' = [inv EXCEPT ![i].name = DefaultTempName(t),
                                     ![i].registered = TRUE,
                                     ![i].pc = "create"]
    /\ UNCHANGED <<single, cdb, cwork, lock>>

\* step 1: temp_table.create(conn), outside a transaction, committed at once
CCreate(i) ==
    /\ inv[i].pc = "create"
    /\ IF LockedOut(i)
       THEN /\ inv' = [inv EXCEPT ![i] = CRaise(i, "OperationalError: database is locked")]
            /\ UNCHANGED <<cdb, cwork>>
       ELSE IF cdb.temps[inv[i].name].exists
       THEN /\ inv' = [inv EXCEPT ![i] = CRaise(i, "OperationalError: table already exists")]
            /\ UNCHANGED <<cdb, cwork>>
       ELSE /\ cdb' = [cdb EXCEPT !.temps[inv[i].name] = [exists |-> TRUE, rows |-> EmptyTable]]
            /\ cwork' = cdb'
            /\ inv' = [inv EXCEPT ![i].temp_table_created = TRUE, ![i].pc = "load"]
    /\ UNCHANGED <<single, lock, clock>>

\* step 2: load the batch; the first DML begins the transaction and takes the
\* write lock, which is held until commit or rollback
CLoad(i) ==
    /\ inv[i].pc = "load"
    /\ IF LockedOut(i)
       THEN /\ inv' = [inv EXCEPT ![i] = [CRaise(i, "OperationalError: database is locked")
                                             EXCEPT !.inTx = TRUE]]
            /\ UNCHANGED <<cwork, lock>>
       ELSE /\ lock' = i
            /\ cwork' = WithSnap(cdb, inv[i].name,
                                 InsertTemp(SnapOf(cdb, inv[i].name), inv[i].values))
            /\ inv' = [inv EXCEPT ![i] =
                         IF FirstDup(inv[i].values) # 0
                         THEN [CRaise(i, "IntegrityError") EXCEPT !.inTx = TRUE]
                         ELSE [inv[i] EXCEPT !.inTx = TRUE,
                                             !.pc = IF inv[i].variant = "replace"
                                                    THEN "delete" ELSE "insert"]]
    /\ UNCHANGED <<single, cdb, clock>>

\* insert_or_replace, step 3: delete the target rows that will be replaced
CDelete(i) ==
    /\ inv[i].pc = "delete"
    /\ LET sn == SnapOf(CView(i), inv[i].name)
       IN /\ cwork' = WithSnap(CView(i), inv[i].name, DeleteConflicts(sn))
          /\ inv' = [inv EXCEPT ![i].updated_rows = Cardinality(Conflicts(sn)),
                                ![i].pc = "insert"]
    /\ UNCHANGED <<single, cdb, lock, clock>>

\* step 3 or 4: insert the staged rows into the target
CInsert(i) ==
    /\ inv[i].pc = "insert"
    /\ LET sn == SnapOf(CView(i), inv[i].name)
       IN IF inv[i].variant = "replace"
          THEN IF InsertAllFails(sn)
               THEN /\ inv' = [inv EXCEPT ![i] = CRaise(i, "IntegrityError")]
                    /\ UNCHANGED cwork
               ELSE /\ cwork' = WithSnap(CView(i), inv[i].name, InsertAll(sn))
                    /\ inv' = [inv EXCEPT
                                 ![i].inserted_rows =
                                     Cardinality(KeysOf(sn.temp)) - inv[i].updated_rows,
                                 ![i].pc = "drop"]
          ELSE /\ cwork' = WithSnap(CView(i), inv[i].name, InsertNoMatch(sn))
               /\ inv' = [inv EXCEPT
                            ![i].inserted_rows = Cardinality(NoMatch(sn)),
                            ![i].ignored_rows =
                                Len(inv[i].values) - Cardinality(NoMatch(sn)),
                            ![i].pc = "drop"]
    /\ UNCHANGED <<single, cdb, lock, clock>>

\* last step: drop the staging table inside the transaction and build the result
CDrop(i) ==
    /\ inv[i].pc = "drop"
    /\ cwork' = [CView(i) EXCEPT !.temps[inv[i].name] = AbsentTable]
    /\ inv' = [inv EXCEPT
                 ![i].temp_table_created = FALSE,
                 ![i].registered = FALSE,
                 ![i].result = IF inv[i].variant = "replace"
                               THEN <<inv[i].updated_rows, inv[i].inserted_rows>>
                               ELSE <<inv[i].ignored_rows, inv[i].inserted_rows>>,
                 ![i].pc = "exit_ok"]
    /\ UNCHANGED <<single, cdb, lock, clock>>

\* the with-block ends normally: commit, which releases the write lock
CExitOk(i) ==
    /\ inv[i].pc = "exit_ok"
    /\ cdb' = CView(i)
    /\ cwork' = CView(i)
    /\ lock' = IF lock = i THEN 0 ELSE lock
    /\ inv' = [inv EXCEPT ![i].inTx = FALSE, ![i].pc = "returned"]
    /\ UNCHANGED <<single, clock>>

\* the with-block ends with the exception: rollback, which releases the lock
CExitFail(i) ==
    /\ inv[i].pc = "exit_fail"
    /\ IF lock = i
       THEN lock' = 0 /\ cwork' = cdb
       ELSE UNCHANGED <<lock, cwork>>
    /\ inv' = [inv EXCEPT ![i].inTx = FALSE, ![i].pc = "cleanup"]
    /\ UNCHANGED <<single, cdb, clock>>

\* _cleanup_temp_table: drop the staging table on a fresh connection; any error
\* (the lock is held, the table does not exist) is swallowed
CCleanup(i) ==
    /\ inv[i].pc = "cleanup"
    /\ IF inv[i].temp_table_created
       THEN /\ IF lock # 0 \/ ~cdb.temps[inv[i].name].exists
               THEN UNCHANGED <<cdb, cwork>>
               ELSE /\ cdb' = [cdb EXCEPT !.temps[inv[i].name] = AbsentTable]
                    /\ cwork' = cdb'
            /\ inv' = [inv EXCEPT ![i].registered = FALSE, ![i].pc = "raised"]
       ELSE /\ inv' = [inv EXCEPT ![i].pc = "raised"]
            /\ UNCHANGED <<cdb, cwork>>
    /\ UNCHANGED <<single, lock, clock>>

\* the single-invocation variables, at rest
SingleIdle ==
    /\ variant = "ignore"
    /\ values = <<>>
    /\ columns = {}
    /\ connArg = FALSE
    /\ transArg = FALSE
    /\ flags = {}
    /\ rowcount = ExactRowcount
    /\ api = "package"
    /\ pk_columns = 1
    /\ db = [target |-> EmptyTable, tempExists |-> FALSE, temp |-> EmptyTable]
    /\ work = db
    /\ inTx = FALSE
    /\ connOpen = FALSE
    /\ pc = "caller"
    /\ temp_table_created = FALSE
    /\ registered = FALSE
    /\ updated_rows = 0
    /\ ignored_rows = 0
    /\ inserted_rows = 0
    /\ exc = ""
    /\ result = <<>>
    /\ origExc = ""
    /\ wroteBefore = 0
    /\ wroteAfter = 0
    /\ viewAtCall = db.target
    /\ log = <<>>
    /\ run = 1
    /\ first = [target |-> EmptyTable, result |-> <<>>]

InitConc ==
    /\ SingleIdle
    /\ schema = <<>>
    /\ \E S \in SUBSET Keys : cdb = [target |-> existing_data(S), temps |-> NoStaging]
    /\ cwork = cdb
    /\ lock = 0
    /\ clock = 0
    /\ inv \in [Invs -> {NewInvocation(v, vals, o) :
                            v \in {"replace", "ignore"}, vals \in ConcBatches, o \in BOOLEAN}]

NextConc ==
    \E i \in Invs :
        \/ CEntry(i)
        \/ CCreate(i)
        \/ CLoad(i)
        \/ CDelete(i)
        \/ CInsert(i)
        \/ CDrop(i)
        \/ CExitOk(i)
        \/ CExitFail(i)
        \/ CCleanup(i)

SpecConc == InitConc /\ [][NextConc]_vars

\* both invocations have ended, with a result or with an exception
ConcDone == \A i \in Invs : inv[i].pc \in {"returned", "raised"}

\* the two invocations that cloned a staging table use different names
OwnStagingNames == inv[1].name = NoName \/ inv[1].name # inv[2].name

\* the target effect of invocation i as one step from the committed rows
WholeEffect(i, view) ==
    IF inv[i].variant = "replace"
    THEN ReplaceExpected(view, inv[i].values)
    ELSE IgnoreExpected(view, inv[i].values)

\* the committed target changes only by a commit, and then by the whole effect
AllOrNothing ==
    cdb'.target # cdb.target =>
        \E i \in Invs : /\ inv[i].pc = "exit_ok"
                        /\ inv'[i].pc = "returned"
                        /\ cdb'.target = WholeEffect(i, cdb.target)

\* C19: two concurrent invocations with their own staging names: an invocation
\* that has ended has a result or an exception and none is ever stuck, the
\* committed target changes only by one invocation's whole effect, and once
\* both have ended no staging table exists in the database.
C19_ConcurrentInvocations ==
    /\ [](OwnStagingNames =>
            /\ \A i \in Invs : /\ inv[i].pc = "returned" =>
                                     inv[i].result # <<>> /\ inv[i].exc = ""
                               /\ inv[i].pc = "raised" => inv[i].exc # ""
            /\ ConcDone => \A n \in StagingNames : ~cdb.temps[n].exists)
    /\ [][OwnStagingNames => AllOrNothing]_vars

\* C20: two invocations that pass no temp_table_name get different staging
\* names, whatever the clock reads when each is called.
C20_DefaultNamesDistinct ==
    (/\ \A i \in Invs : ~inv[i].override /\ inv[i].name # NoName)
        => inv[1].name # inv[2].name

\* C21: sqlite.py's insert_or_replace, non-empty batch, target with a single
\* primary-key column: once the call has returned or raised, the staging table
\* does not exist in the database and its descriptor is not in the metadata
\* registry.
C21_LegacyReplaceNoTempTable ==
    (LegacyReplace /\ pk_columns = 1 /\ values # <<>> /\ pc \in {"returned", "raised"})
    => (~db.tempExists /\ ~registered)

\* ---------------------------------------------------------------------------
\* clone_temp_table on its own: a target descriptor, the metadata registry the
\* caller supplies, an optional temp_table_name, and the clock.
\* A descriptor is an object (id) with a name, its columns in order, its
\* table-level constraints and the registry it belongs to.  A name is a list
\* of its parts: "temp_<second>_<table>" is <<"temp", second, table>>.
\* ---------------------------------------------------------------------------

TargetName == <<"records">>

\* names a caller may pass as temp_table_name; NoName stands for None
OverrideNames == {<<"temp", "mine">>, <<"staging">>, TargetName}

\* f"temp_{dt}_" + original_table.name
DefaultCloneName(t, original) == DefaultTempName(t) \o original.name

KeyColumn ==
    [name |-> "id", type |-> "Integer", primary_key |-> TRUE, unique |-> FALSE,
     foreign_key |-> FALSE]

DataColumn(u, fk) ==
    [name |-> "desc", type |-> "String", primary_key |-> FALSE, unique |-> u,
     foreign_key |-> fk]

TableConstraints == {"ForeignKeyConstraint", "UniqueConstraint"}

\* target tables with a single primary-key column
TargetTables ==
    {[id |-> "table", name |-> TargetName, columns |-> cols, constraints |-> cs,
      metadata |-> "own"] :
        cols \in UNION {{<<KeyColumn, DataColumn(u, fk)>>, <<DataColumn(u, fk), KeyColumn>>} :
                           u \in BOOLEAN, fk \in BOOLEAN},
        cs \in SUBSET TableConstraints}

\* mutant: only the columns are copied
CopyNoConstraints(original) == {}

\* Table.to_metadata copies every table-level constraint of the original
CopyConstraints(original) == {c \in TableConstraints : c \in original.constraints}

\* Column._copy keeps name, type and the primary_key, unique and foreign-key flags
CopyColumn(c) ==
    [name |-> c.name, type |-> c.type, primary_key |-> c.primary_key,
     unique |-> c.unique, foreign_key |-> c.foreign_key]

\* original_table.to_metadata(metadata, name=temp_table_name): a table of that
\* name already in the registry is returned as it is; otherwise a copy is
\* built and added to the registry
ToMetadata(original, registry, m, nm) ==
    IF \E d \in registry[m] : d.name = nm
    THEN [table |-> CHOOSE d \in registry[m] : d.name = nm, registry |-> registry]
    ELSE LET copy == [id |-> "temp_table", name |-> nm,
                      columns |-> [i \in DOMAIN original.columns |->
                                      CopyColumn(original.columns[i])],
                      constraints |-> CopyConstraints(original),
                      metadata |-> m]
         IN [table |-> copy, registry |-> [registry EXCEPT ![m] = @ \cup {copy}]]

clone_temp_table(original, registry, m, temp_table_name, now) ==
    ToMetadata(original, registry, m,
               IF temp_table_name = NoName
               THEN DefaultCloneName(now, original)
               ELSE temp_table_name)

InitClone ==
    /\ SingleIdle
    /\ ConcIdle
    /\ \E original \in TargetTables, m \in {"own", "fresh"},
          nm \in OverrideNames \cup {NoName}, now \in 0..MaxTick :
          /\ nm # NoName => now = 0
          /\ schema = [original_table |-> original,
                       metadata |-> m,
                       temp_table_name |-> nm,
                       now |-> now,
                       registry |-> [own |-> {original}, fresh |-> {}],
                       called |-> FALSE,
                       temp_table |-> original,
                       created |-> "no"]

CloneTempTable ==
    /\ schema # <<>>
    /\ ~schema.called
    /\ LET r == clone_temp_table(schema.original_table, schema.registry, schema.metadata,
                                 schema.temp_table_name, schema.now)
       IN schema' = [schema EXCEPT !.called = TRUE,
                                   !.temp_table = r.table,
                                   !.registry = r.registry]
    /\ UNCHANGED <<inputs, dbState, pc, locals, callerHist, log, run, first, conc>>

\* Step 1 of an invocation, temp_table.create(connection): the database holds
\* the target table, so CREATE TABLE fails when the staging name is the target's
CreateTempTable ==
    /\ schema # <<>>
    /\ schema.called
    /\ schema.created = "no"
    /\ schema' = [schema EXCEPT !.created =
                      IF schema.temp_table.name = schema.original_table.name
                      THEN "OperationalError"
                      ELSE "yes"]
    /\ UNCHANGED <<inputs, dbState, pc, locals, callerHist, log, run, first, conc>>

NextClone == CloneTempTable \/ CreateTempTable

SpecClone == InitClone /\ [][NextClone]_vars

ColumnNames(t) == [i \in DOMAIN t.columns |-> t.columns[i].name]
ColumnTypes(t) == [i \in DOMAIN t.columns |-> t.columns[i].type]
PrimaryKey(t) == {t.columns[i].name : i \in {j \in DOMAIN t.columns : t.columns[j].primary_key}}
\* foreign-key and uniqueness constraints, on columns and on the table
ExtraConstraints(t) ==
    {<<"table", c>> : c \in t.constraints}
      \cup {<<t.columns[i].name, "unique">> : i \in {j \in DOMAIN t.columns : t.columns[j].unique}}
      \cup {<<t.columns[i].name, "foreign_key">> :
               i \in {j \in DOMAIN t.columns : t.columns[j].foreign_key}}

\* C22: the descriptor clone_temp_table returns is an object other than the
\* target, has the target's column names in order, types and single primary
\* key, a name other than the target's, is in the supplied registry and not in
\* the target's own, and has no foreign-key or uniqueness constraint.
C22_SchemaClone ==
    (schema # <<>> /\ schema.called)
    => LET t == schema.temp_table
           o == schema.original_table
       IN /\ t.id # o.id
          /\ ColumnNames(t) = ColumnNames(o)
          /\ ColumnTypes(t) = ColumnTypes(o)
          /\ PrimaryKey(t) = PrimaryKey(o) /\ Cardinality(PrimaryKey(t)) = 1
          /\ t.name # o.name
          /\ t \in schema.registry[schema.metadata]
          /\ t \notin schema.registry["own"]
          /\ ExtraConstraints(t) = {}

\* C22 as the code has it: same columns, order, types and primary key; the
\* foreign-key and uniqueness constraints of the target are inherited; the
\* name is the override, or the default name; the descriptor is in the
\* supplied registry.  When the supplied registry is not the target's own the
\* descriptor is a new object outside the target's registry, and its name
\* differs from the target's unless the override is the target's name.
C22_SchemaCloneInherits ==
    (schema # <<>> /\ schema.called)
    => LET t == schema.temp_table
           o == schema.original_table
       IN /\ ColumnNames(t) = ColumnNames(o)
          /\ ColumnTypes(t) = ColumnTypes(o)
          /\ PrimaryKey(t) = PrimaryKey(o) /\ Cardinality(PrimaryKey(t)) = 1
          /\ ExtraConstraints(t) = ExtraConstraints(o)
          /\ t.name = IF schema.temp_table_name = NoName
                      THEN <<"temp", ToString(schema.now \div TicksPerSecond)>> \o o.name
                      ELSE schema.temp_table_name
          /\ t \in schema.registry[schema.metadata]
          /\ schema.metadata # "own" =>
                /\ t.id # o.id
                /\ t \notin schema.registry["own"]
                /\ schema.temp_table_name # o.name => t.name # o.name

C22_Witness ==
    /\ schema # <<>>
    /\ schema.called
    /\ schema.metadata = "fresh"
    /\ schema.temp_table_name = NoName
    /\ schema.temp_table.id = "temp_table"
    /\ schema.temp_table.constraints = TableConstraints
    /\ \E i \in DOMAIN schema.temp_table.columns : schema.temp_table.columns[i].unique
    /\ schema.temp_table.columns[1].name = "desc"
    /\ schema.temp_table.name[1] = "temp"

\* ---------------------------------------------------------------- phase order
\* insert_or_replace, insert_or_ignore and the UpsertHelper.run pipeline, in
\* either mode, at most one testing flag, no write of the caller's own.
\* The invocation runs: it is sequential code whose every statement is a
\* blocking round trip, so a step that can be taken is taken.
InitPhases ==
    /\ api \in {"package", "helper"}
    /\ variant \in IF api = "helper" THEN {"ignore"} ELSE {"replace", "ignore"}
    /\ values \in {input_data(s) : s \in KeySeqs}
    /\ columns = {}
    /\ connArg \in BOOLEAN
    /\ transArg = connArg
    /\ flags \in {f \in SUBSET Flags : Cardinality(f) <= 1}
    /\ rowcount = ExactRowcount
    /\ pk_columns = 1
    /\ InitState

NextPhases ==
    \/ Call
    \/ Entry
    \/ Connect
    \/ StepCreate
    \/ StepLoad
    \/ StepDelete
    \/ StepInsert
    \/ StepDrop
    \/ Except
    \/ ExitOk
    \/ ExitFail
    \/ Cleanup
    \/ CallerCommit
    \/ CallerRollback

SpecPhases == InitPhases /\ [][NextPhases]_vars /\ WF_vars(NextPhases)

IsStatement(e) == e \in {"create", "load", "delete", "update", "insert", "drop"}

\* the statements issued on the operation's connection by the invocation, in order
StatementLog == SelectSeq(log, IsStatement)

IsPrefix(a, b) == Len(a) <= Len(b) /\ \A i \in 1..Len(a) : a[i] = b[i]

\* C23: insert_or_replace, insert_or_ignore and UpsertHelper.run: the
\* statements issued on the operation's connection are, in order, an initial part of create, load,
\* (delete,) insert, drop, each at most once; a successful non-empty call has
\* issued them all; once a phase has failed no further statement is issued on
\* that connection; and every call ends by returning or raising.
C23_PhaseOrder ==
    /\ [](/\ IsPrefix(StatementLog, Phases)
          /\ (pc = "returned" /\ values # <<>>) => StatementLog = Phases)
    /\ [][Failed => StatementLog' = StatementLog]_vars
    /\ (pc = "entry") ~> (pc \in {"returned", "raised"})

C23_Witness ==
    /\ variant = "replace"
    /\ pc = "raised"
    /\ flags = {}
    /\ exc = "IntegrityError"
    /\ StatementLog = <<"create", "load">>
    /\ Has("rollback")
    /\ Has("cleanup_drop")

\* C24: temp_table_created is false before the pipeline starts; it turns true
\* exactly in the step whose create statement succeeded and turns false
\* exactly in the step whose success-path drop succeeded, so load and
\* reconcile leave it alone; when the call has raised, the cleanup has opened
\* its connection and issued its drop if and only if the flag is true.
C24_CreatedFlag ==
    /\ []((run = 1 /\ pc \in {"caller", "entry", "connect", "create"}) => ~temp_table_created)
    /\ [](pc = "raised" => (Has("cleanup_connect") <=> temp_table_created))
    /\ [][/\ temp_table_created' # temp_table_created =>
                \/ /\ temp_table_created'
                   /\ pc = "create"
                   /\ log' = Append(log, "create")
                   /\ ~View.tempExists /\ View'.tempExists
                \/ /\ ~temp_table_created'
                   /\ pc = "drop"
                   /\ log' = Append(log, "drop")
                   /\ View.tempExists /\ ~View'.tempExists
          /\ (pc = "create" /\ pc' = "load") => temp_table_created'
          /\ (pc = "drop" /\ pc' \in {"exit_ok", "returned"}) => ~temp_table_created'
       ]_vars

C24_Witness ==
    /\ pc = "raised"
    /\ flags = {"raise_on_temp_table_create"}
    /\ values # <<>>
    /\ ~temp_table_created
    /\ ~Has("create")
    /\ ~Has("cleanup_connect")
    /\ Has("cleanup")

\* C25: a call that created a staging table and returned has dropped it by a
\* statement on the operation's connection, before the commit when the commit
\* is its own, and has opened no cleanup connection; a cleanup connection is
\* opened only by a call in which a phase has failed.
C25_SuccessPathDrop ==
    /\ (Has("create") /\ Succeeded /\ pc \in {"returned", "done"})
          => /\ Has("drop")
             /\ Pos("create") < Pos("drop")
             /\ Has("commit") => Pos("drop") < Pos("commit")
             /\ ~Has("cleanup_connect")
    /\ Has("cleanup_connect") => Failed

\* the operation's own connection is closed, or was never the function's to
\* close (user-managed mode: the caller's connection stays with the caller)
CleanupAfterOwnTransaction ==
    auto_managed => /\ Has("rollback") /\ Has("close")
                    /\ Pos("rollback") < Pos("cleanup_connect")
                    /\ Pos("close") < Pos("cleanup_connect")

\* C26: on every failure path that has created the staging table, the cleanup
\* drop is executed and committed on a connection newly obtained from the
\* engine, never on the operation's or the caller's connection, and in
\* auto-managed mode that connection is opened only after the operation's
\* transaction has been rolled back and its connection closed
C26_FreshCleanupConnection ==
    (Failed /\ temp_table_created /\ pc \in {"raised", "done"})
        => /\ Has("cleanup_connect")
           /\ Has("cleanup_drop")
           /\ ~Has("cleanup_failed")
           /\ ~Has("drop")
           /\ CleanupAfterOwnTransaction

\* C27: when the drop on the fresh connection fails during cleanup, the call
\* still ends by raising, the exception that reaches the caller is the one
\* raised by the failed phase, and the staging descriptor has been removed
\* from the metadata registry
C27_CleanupFailureSwallowed ==
    (Has("cleanup_failed") /\ pc \in {"raised", "done"})
        => /\ Failed
           /\ exc = origExc
           /\ exc # "database is locked"
           /\ ~registered

\* C28: once an invocation has returned or raised, the metadata registry used
\* for the call no longer contains the staging table's descriptor
C28_NoLeakedDescriptor ==
    pc \in {"returned", "raised", "done"} => ~registered

\* the name begins with the staging prefix
HasStagingPrefix(nm) == nm[1] = "temp"

\* C29: every staging table an invocation creates, under the default name or
\* under the caller's temp_table_name, has a name that begins with "temp" and
\* differs from the target table's name
C29_StagingNamePrefix ==
    (schema # <<>> /\ schema.created = "yes")
        => /\ HasStagingPrefix(schema.temp_table.name)
           /\ schema.temp_table.name # schema.original_table.name

\* a statement sent to the database: a phase's statement on the operation's
\* connection, or the DROP TABLE that a cleanup sends on its fresh connection,
\* whether the database accepts or refuses it
IsIssued(e) == IsStatement(e) \/ e \in {"cleanup_drop", "cleanup_failed"}

IssuedLog == SelectSeq(log, IsIssued)

Drops == Count("drop") + Count("cleanup_drop") + Count("cleanup_failed")

\* C30: a successful invocation with a batch to load issues one statement for
\* each phase, whatever the size of the batch: the whole batch is loaded by one
\* statement, Replace issues exactly five statements (create, load, delete,
\* insert, drop) and IgnoreExisting exactly four (create, load, insert, drop)
C30_StatementCount ==
    (Succeeded /\ values # <<>> /\ variant \in {"replace", "ignore"})
        => /\ Len(IssuedLog) = IF variant = "replace" THEN 5 ELSE 4
           /\ Count("create") = 1
           /\ Count("load") = 1
           /\ Count("delete") = IF variant = "replace" THEN 1 ELSE 0
           /\ Count("insert") = 1
           /\ Drops = 1

\* a successful Replace of a batch of more than one record
C30_Witness ==
    /\ variant = "replace"
    /\ Len(values) = MaxBatch
    /\ Succeeded
    /\ pc = "returned"
    /\ inserted_rows = MaxBatch
    /\ Len(IssuedLog) = 5

\* the rows a connection sees in the target include every row of before, unchanged
RowsKept(before, now) == \A k \in Keys : before[k] # NoRow => now[k] = before[k]

\* C31: insert_or_ignore never issues a delete or an update; from the call on,
\* on the success path and on every failure path, each row the target held
\* when the call was made is still there with its values unchanged, in the
\* view of the operation's connection and, for the rows committed before the
\* call, in the database
C31_IgnoreFrame ==
    (variant = "ignore" /\ pc # "caller")
        => /\ ~Has("delete")
           /\ ~Has("update")
           /\ pc # "done" => RowsKept(viewAtCall, View.target)
           /\ RowsKept(PreTx, db.target)

\* a successful insert_or_ignore that skipped an existing row and inserted a new one
C31_Witness ==
    /\ variant = "ignore"
    /\ pc = "returned"
    /\ Succeeded
    /\ Has("insert")
    /\ ignored_rows > 0
    /\ inserted_rows > 0
    /\ KeysOf(viewAtCall) \cap BatchKeys(values) # {}

\* ---------------------------------------------------------------- a table under the staging name
\* Before the call a table may already exist under the name the invocation
\* will use for its staging table: the target itself or another table of the
\* caller's when temp_table_name is that table's name, or the staging table
\* that another invocation of the same second has created and not yet
\* loaded.  Its owner holds no lock.
ForeignRows == existing_data({1})

TableAppears ==
    /\ pc = "caller"
    /\ ~db.tempExists
    /\ ~inTx
    /\ db' = [db EXCEPT !.tempExists = TRUE, !.temp = ForeignRows]
    /\ work' = db'
    /\ UNCHANGED <<inputs, outer, inTx, connOpen, pc, locals, callerHist, log>>

InitExisting ==
    /\ api \in Apis
    /\ variant \in IF api = "helper" THEN {"ignore"} ELSE {"replace", "ignore"}
    /\ pk_columns = 1
    /\ values \in {input_data(s) : s \in KeySeqs}
    /\ columns = {}
    /\ connArg \in IF LegacyReplace THEN {FALSE} ELSE BOOLEAN
    /\ transArg = connArg
    /\ flags \in IF LegacyReplace THEN {{}} ELSE {f \in SUBSET Flags : Cardinality(f) <= 1}
    /\ rowcount = ExactRowcount
    /\ InitState

NextExisting == NextApi \/ TableAppears

SpecExisting == InitExisting /\ [][NextExisting]_vars

\* the table under the staging name is the one that was there before the
\* call: a staging table of the invocation is empty or holds records of the batch
ForeignTable == db.tempExists /\ db.temp = ForeignRows

\* C32: an invocation never drops a table it did not create: a table that is
\* in the database under the staging name without the invocation having
\* created it, so that the create phase fails, is still there, with its rows,
\* after every step of the success path and of the failure-path cleanup
C32_NeverDropsForeignTable ==
    [][ForeignTable => (db'.tempExists /\ db'.temp = db.temp)]_vars

\* ---------------------------------------------------------------- a caller that catches
\* User-managed mode with a caller that wraps the call in try/except inside
\* its own transaction: when the call raises, the caller catches the error and
\* commits what its transaction holds, or lets the error roll it back.
CallerCatchCommit ==
    /\ pc = "raised"
    /\ connOpen
    /\ db' = work
    /\ work' = work
    /\ inTx' = FALSE
    /\ connOpen' = FALSE
    /\ log' = log \o <<"caller_catch", "caller_commit", "caller_close">>
    /\ pc' = "done"
    /\ UNCHANGED <<inputs, outer, locals, callerHist>>

InitCatch ==
    /\ api \in {"package", "helper"}
    /\ variant \in IF api = "helper" THEN {"ignore"} ELSE {"replace", "ignore"}
    /\ values \in {input_data(s) : s \in KeySeqs}
    /\ columns = {}
    /\ connArg = TRUE
    /\ transArg = TRUE
    /\ flags \in {f \in SUBSET Flags : Cardinality(f) <= 1}
    /\ rowcount = ExactRowcount
    /\ pk_columns = 1
    /\ InitState

NextCatch ==
    \/ CallerWriteBefore
    \/ Call
    \/ Entry
    \/ StepCreate
    \/ StepLoad
    \/ StepDelete
    \/ StepInsert
    \/ StepDrop
    \/ Except
    \/ Cleanup
    \/ CallerCommit
    \/ CallerRollback
    \/ CallerCatchCommit

SpecCatch == InitCatch /\ [][NextCatch]_vars

\* C33: user-managed mode: when the call has raised and the caller has caught
\* the error and committed its transaction, no staging table of the invocation
\* exists in the database
C33_CatchAndCommit ==
    (user_managed /\ Failed /\ pc = "done" /\ Has("caller_catch"))
        => ~db.tempExists

\* C34: user-managed mode: the failure-path cleanup always terminates, by a
\* drop that succeeds or by a failure that is swallowed, also while the
\* caller's transaction that created and wrote the staging table is open and
\* holds the write lock; the call then raises to the caller, whose connection
\* is still open
C34_CleanupTerminates ==
    /\ (user_managed /\ pc = "cleanup") ~> (pc = "raised")
    /\ [][(user_managed /\ pc = "cleanup") => (pc' = "raised" /\ connOpen' /\ inTx' = inTx)]_vars

\* the cleanup's drop was refused while the caller's transaction held the lock
C34_Witness ==
    /\ user_managed
    /\ pc = "raised"
    /\ connOpen
    /\ inTx
    /\ work.tempExists
    /\ Has("load")
    /\ Has("cleanup_failed")

\* ---------------------------------------------------------------- retry after a failure
\* A call fails and its transaction is rolled back (by the function in
\* auto-managed mode, by the caller in user-managed mode); the caller then
\* makes the same call again: same target, batch, temp_table_name and
\* metadata, no testing flag, in user-managed mode on a new connection and
\* transaction.  The database is as the first call left it.
Retry ==
    /\ run = 1
    /\ Failed
    /\ \/ auto_managed /\ pc = "raised"
       \/ user_managed /\ pc = "done" /\ Has("caller_rollback")
    /\ run' = 2
    /\ first' = [target |-> viewAtCall, result |-> <<>>]
    /\ flags' = {}
    /\ connOpen' = user_managed
    /\ inTx' = FALSE
    /\ db' = db
    /\ work' = db
    /\ temp_table_created' = FALSE
    /\ updated_rows' = 0
    /\ ignored_rows' = 0
    /\ inserted_rows' = 0
    /\ exc' = ""
    /\ origExc' = ""
    /\ result' = <<>>
    /\ viewAtCall' = db.target
    /\ log' = <<>>
    /\ pc' = "entry"
    /\ UNCHANGED <<variant, values, columns, connArg, transArg, rowcount, api, pk_columns,
                   conc, schema, registered, wroteBefore, wroteAfter>>

InitRetry ==
    /\ api = "package"
    /\ variant \in {"replace", "ignore"}
    /\ values \in {input_data(s) : s \in KeySeqs}
    /\ columns = {}
    /\ connArg \in BOOLEAN
    /\ transArg = connArg
    /\ flags \in {f \in SUBSET Flags : Cardinality(f) <= MaxArmed}
    /\ rowcount = ExactRowcount
    /\ pk_columns = 1
    /\ InitState

NextRetry ==
    \/ Call
    \/ Entry
    \/ Connect
    \/ StepCreate
    \/ StepLoad
    \/ StepDelete
    \/ StepInsert
    \/ StepDrop
    \/ Except
    \/ ExitOk
    \/ ExitFail
    \/ Cleanup
    \/ CallerCommit
    \/ CallerRollback
    \/ Retry

SpecRetry == InitRetry /\ [][NextRetry]_vars

\* C35: after a call has failed and its transaction has been rolled back, the
\* same call made again with no fault armed (a batch without a repeated key)
\* does not fail, and when it returns the target and the counts are those of
\* a call on the target as it was before the failed call
C35_RetryAfterFailure ==
    (run = 2 /\ UniqueKeys(values))
        => /\ ~Failed
           /\ pc = "returned" =>
                 /\ View.target = Expected(first.target)
                 /\ result = <<Cardinality(Existing(values, first.target)),
                               Cardinality(Absent(values, first.target))>>

\* ---------------------------------------------------------------- the batch in another order
\* The records of a batch with unique primary keys, in every order
BatchOrders(vals) ==
    {p \in [1..Len(vals) -> {vals[i] : i \in 1..Len(vals)}] :
        \A i, j \in 1..Len(vals) : i # j => p[i] # p[j]}

\* After a successful, committed call the same call is made on a database that
\* holds what the first one held before the call, with the records of the
\* batch in another order (or the same); the outcome of the first call is
\* kept for comparison
CallPermuted ==
    /\ run = 1
    /\ Succeeded
    /\ UniqueKeys(values)
    /\ \/ auto_managed /\ pc = "returned"
       \/ user_managed /\ pc = "done" /\ Has("caller_commit")
    /\ \E p \in BatchOrders(values) : values' = p
    /\ run' = 2
    /\ first' = [target |-> db.target, result |-> result, values |-> values]
    /\ db' = [target |-> viewAtCall, tempExists |-> FALSE, temp |-> EmptyTable]
    /\ work' = db'
    /\ inTx' = FALSE
    /\ connOpen' = user_managed
    /\ temp_table_created' = FALSE
    /\ updated_rows' = 0
    /\ ignored_rows' = 0
    /\ inserted_rows' = 0
    /\ result' = <<>>
    /\ log' = <<>>
    /\ pc' = "entry"
    /\ UNCHANGED <<variant, columns, connArg, transArg, flags, rowcount, api, pk_columns,
                   conc, schema, registered, exc, origExc, callerHist>>

InitPerm ==
    /\ api = "package"
    /\ variant \in {"replace", "ignore"}
    /\ values \in {input_data(s) : s \in KeySeqs}
    /\ columns = {}
    /\ connArg \in BOOLEAN
    /\ transArg = connArg
    /\ flags = {}
    /\ rowcount = ExactRowcount
    /\ pk_columns = 1
    /\ InitState

NextPerm ==
    \/ Call
    \/ Entry
    \/ Connect
    \/ StepCreate
    \/ StepLoad
    \/ StepDelete
    \/ StepInsert
    \/ StepDrop
    \/ Except
    \/ ExitOk
    \/ ExitFail
    \/ Cleanup
    \/ CallerCommit
    \/ CallerRollback
    \/ CallPermuted

SpecPerm == InitPerm /\ [][NextPerm]_vars

\* C36: for a batch with unique primary keys, Replace and IgnoreExisting
\* applied to the same initial target with the records in any two orders do
\* not fail, and give the same final target rows and the same returned counts
C36_BatchOrder ==
    (run = 2)
        => /\ ~Failed
           /\ pc = "returned" =>
                 /\ View.target = first.target
                 /\ result = first.result
           /\ (pc = "done" /\ Has("caller_commit")) =>
                 /\ db.target = first.target
                 /\ result = first.result

\* a batch of two records, one new and one existing, applied in both orders
C36_Witness ==
    /\ run = 2
    /\ pc = "returned"
    /\ Len(values) = 2
    /\ values # first.values
    /\ result = <<1, 1>>
    /\ first.result = <<1, 1>>
    /\ View.target = first.target

\* C37: insert_or_replace called a second time with the same batch of unique
\* keys and no other write in between leaves the target as it was after the
\* first call and returns (batch size, 0)
C37_ReplaceIdempotent ==
    (variant = "replace" /\ run = 2 /\ UniqueKeys(values) /\ wroteAfter = 0)
        => /\ ~Failed
           /\ pc = "returned" =>
                 /\ result = <<Len(values), 0>>
                 /\ View.target = first.target

\* the first call replaced one row and inserted one, the second replaced both
C37_Witness ==
    /\ variant = "replace"
    /\ run = 2
    /\ pc = "returned"
    /\ Len(values) = 2
    /\ first.result = <<1, 1>>
    /\ result = <<2, 0>>
    /\ Has("delete")
    /\ View.target = first.target

\* C38: a batch that contains the same primary key twice (no fault armed,
\* consistent conn/trans arguments) makes the invocation fail at the load phase, with the staging table's
\* primary-key violation and before any statement against the target; once
\* the transaction is rolled back the target is what it was and no staging
\* table remains
C38_RepeatedKeyFailsAtLoad ==
    (/\ FirstDup(values) # 0
     /\ flags = {}
     /\ variant \in {"replace", "ignore"}
     /\ user_managed \/ auto_managed)
        => /\ ~Succeeded
           /\ ~Has("delete") /\ ~Has("insert")
           /\ Failed => (exc = "IntegrityError" /\ Has("load"))
           /\ (AutoSettled \/ UserSettled) =>
                 /\ Failed
                 /\ db.target = PreTx
                 /\ ~db.tempExists

\* ---------------------------------------------------------------- the two insert_or_replace
\* The insert_or_replace of sqlite/insert_or_replace.py is called in
\* auto-managed mode with no testing flag; when it is over, sqlite.py's
\* insert_or_replace is called with the same batch on a database that holds
\* what the first one held before the call.  The outcome of the first call
\* is kept for comparison.
CallLegacy ==
    /\ run = 1
    /\ api = "package"
    /\ pc \in {"returned", "raised"}
    /\ api' = "legacy"
    /\ run' = 2
    /\ first' = [target |-> db.target, result |-> result, tables |-> db.tempExists,
                 exc |-> exc]
    /\ db' = [target |-> viewAtCall, tempExists |-> FALSE, temp |-> EmptyTable]
    /\ work' = db'
    /\ inTx' = FALSE
    /\ connOpen' = FALSE
    /\ temp_table_created' = FALSE
    /\ registered' = FALSE
    /\ updated_rows' = 0
    /\ ignored_rows' = 0
    /\ inserted_rows' = 0
    /\ exc' = ""
    /\ origExc' = ""
    /\ result' = <<>>
    /\ log' = <<>>
    /\ pc' = "entry"
    /\ UNCHANGED <<variant, values, columns, connArg, transArg, flags, rowcount, pk_columns,
                   conc, schema, callerHist>>

InitAgree ==
    /\ api = "package"
    /\ variant = "replace"
    /\ values \in {input_data(s) : s \in KeySeqs}
    /\ columns = {}
    /\ connArg = FALSE
    /\ transArg = FALSE
    /\ flags = {}
    /\ rowcount = ExactRowcount
    /\ pk_columns = 1
    /\ InitState

NextAgree ==
    \/ Call
    \/ Entry
    \/ Connect
    \/ StepCreate
    \/ StepLoad
    \/ StepDelete
    \/ StepInsert
    \/ StepDrop
    \/ Except
    \/ ExitOk
    \/ ExitFail
    \/ Cleanup
    \/ LegacyFinally
    \/ LegacyExitFail
    \/ CallLegacy

SpecAgree == InitAgree /\ [][NextAgree]_vars

\* C39: on the same initial target and batch (the empty batch included) the
\* insert_or_replace of sqlite.py and the auto-managed insert_or_replace of
\* sqlite/insert_or_replace.py return the same pair of counts and leave the
\* same target rows and the same set of tables in the database
C39_ImplementationsAgree ==
    (run = 2 /\ pc \in {"returned", "raised"})
        => /\ result = first.result
           /\ db.target = first.target
           /\ db.tempExists = first.tables

====
